---- MODULE Spec2Model ----
(***************************************************************************)
(* Model of src/server.ts: an Express application with a static-file       *)
(* middleware, twelve GET routes, a catch-all not-found middleware and an  *)
(* error middleware, registered in that file's order, plus the port the    *)
(* process listens on.                                                     *)
(*                                                                         *)
(* A URL path is a sequence of segments; a segment is a sequence of        *)
(* tokens, a token being one unescaped character, one percent-escape       *)
(* ("%37") or a stray "%" that starts no valid escape.  A literal segment  *)
(* of a route ("simple") is the one-token segment <<"simple">>.            *)
(***************************************************************************)
EXTENDS Integers, Sequences, FiniteSets, TLC

VARIABLES argv, port, listening, pc, req, idx, err, res, ran, log, logMark, memo

vars == <<argv, port, listening, pc, req, idx, err, res, ran, log, logMark, memo>>

(* ------------------------------ bounds -------------------------------- *)

\* Longest command-line argument tried as process.argv[2].
MaxArgLen == 3

\* Entries console.error may hold before the model stops taking requests.
MaxLog == 2

(* ------------------------- the error taxonomy ------------------------- *)

\* A failure: its class, whether it is an instance of AppError, its `code`
\* property ("" when the object has none), its message and its stack.
Failure(cls, app, code, msg, stack) ==
    [class |-> cls, app |-> app, code |-> code, message |-> msg, stack |-> stack]

NoErr == [class |-> "", app |-> FALSE, code |-> "", message |-> "", stack |-> ""]

AppError(msg, stack) == Failure("AppError", TRUE, "unknown_error", msg, stack)

AuthenticationError(msg, stack) ==
    Failure("AuthenticationError", TRUE, "auth_error", msg, stack)

RequiredFieldError(msg, stack) ==
    Failure("RequiredFieldError", TRUE, "required_field_error", msg, stack)

\* What the router forwards when decodeURIComponent rejects a parameter.
URIError ==
    Failure("URIError", FALSE, "", "Failed to decode param",
            "URIError: Failed to decode param at decode_param")

(* ------------------------------ the port ------------------------------ *)

ArgChars == {"0", "8", "a", "-"}

Digits == {"0", "8"}

DigitVal(c) == IF c = "8" THEN 8 ELSE 0

\* process.argv[2]: absent (<<>>) or a non-empty string of characters.
Args == UNION {[1..n -> ArgChars] : n \in 0..MaxArgLen}

RECURSIVE DigitPrefix(_, _, _)
\* The value of the longest run of digits of s from position i on, acc the
\* value so far; no digit at all gives NaN.
DigitPrefix(s, i, acc) ==
    IF i > Len(s) \/ s[i] \notin Digits
    THEN acc
    ELSE DigitPrefix(s, i + 1,
                     [nan |-> FALSE, val |-> acc.val * 10 + DigitVal(s[i])])

\* parseInt(s): an optional sign, then the longest prefix of digits; NaN when
\* there is none.  An absent argument is undefined, which parses to NaN.
ParseInt(s) ==
    LET neg  == Len(s) > 0 /\ s[1] = "-"
        from == IF neg THEN 2 ELSE 1
        p    == DigitPrefix(s, from, [nan |-> TRUE, val |-> 0])
    IN  IF p.nan THEN p ELSE [nan |-> FALSE, val |-> IF neg THEN 0 - p.val ELSE p.val]

DefaultPort == 3000

\* parseInt(process.argv[2]) || 3000: NaN and 0 are falsy.
Port(s) ==
    LET n == ParseInt(s)
    IN  IF n.nan \/ n.val = 0 THEN DefaultPort ELSE n.val

(* ---------------------------- the requests ---------------------------- *)

Methods == {"GET", "HEAD", "POST"}

\* The segments tried in the two parameter positions: a letter, a valid
\* percent-escape (of the digit "7") and a "%" that starts no valid escape.
ParamSegs == {<<"J">>, <<"%37">>, <<"%">>}

\* The path with the one literal segment s, and the path s/t.
P1(s) == <<(<<s>>)>>

P2(s, t) == <<(<<s>>), (<<t>>)>>

FixedPaths ==
    {<<>>, P1("simple"), P1("partials-example"), P1("list"), P1("products"),
     P1("products-partials"), P1("profile"), P1("unless-example"),
     P1("error-a"), P1("error-b"), P1("does-not-exist"),
     P1("static"), P2("static", "styles.css"), P2("static", "missing.css")}

NamePaths ==
    {<<(<<h>>), f, l>> : h \in {"saymyname", "saymyname2"},
                         f \in ParamSegs, l \in ParamSegs}

Paths == FixedPaths \cup NamePaths

Requests == [method : Methods, path : Paths]

NoReq == [method |-> "", path |-> <<>>]

(* ------------------------ percent-decoding ---------------------------- *)

\* decodeURIComponent on one token: a valid escape becomes its character.
PctDecode(tok) == IF tok = "%37" THEN "7" ELSE tok

Decodable(seg) == \A i \in 1..Len(seg) : seg[i] # "%"

\* DecodeParam with the decoding forgotten: the raw segment.
DecodeParamRaw(seg) == seg

\* The decoded parameter value, a string (a sequence of characters).
DecodeParam(seg) == [i \in 1..Len(seg) |-> PctDecode(seg[i])]

(* ----------------------- the middleware stack ------------------------- *)

Lit(s) == [param |-> FALSE, seg |-> <<s>>, name |-> ""]

Par(n) == [param |-> TRUE, seg |-> <<>>, name |-> n]

\* app.get(path, fn): a route layer, fn.length = 2.
Get(pattern, handler) ==
    [route |-> TRUE, method |-> "GET", pattern |-> pattern, arity |-> 2,
     handler |-> handler]

\* app.use([prefix,] fn): a non-route layer that matches by prefix.
Use(pattern, arity, handler) ==
    [route |-> FALSE, method |-> "", pattern |-> pattern, arity |-> arity,
     handler |-> handler]

\* The layers in the order server.ts registers them.
Stack ==
    << Use(<<Lit("static")>>, 3, "static"),
       Get(<<Lit("simple")>>, "simple"),
       Get(<<>>, "home"),
       Get(<<Lit("saymyname"), Par("fname"), Par("lname")>>, "saymyname"),
       Get(<<Lit("saymyname2"), Par("fname"), Par("lname")>>, "saymyname2"),
       Get(<<Lit("partials-example")>>, "partials-example"),
       Get(<<Lit("list")>>, "list"),
       Get(<<Lit("products")>>, "products"),
       Get(<<Lit("products-partials")>>, "products-partials"),
       Get(<<Lit("profile")>>, "profile"),
       Get(<<Lit("unless-example")>>, "unless-example"),
       Use(<<>>, 2, "not-found"),
       Get(<<Lit("error-a")>>, "error-a"),
       Get(<<Lit("error-b")>>, "error-b"),
       Use(<<>>, 4, "error") >>

LayerOf(handler) == CHOOSE i \in 1..Len(Stack) : Stack[i].handler = handler

\* The files of the static directory.
StaticFiles == {<<"styles.css">>, <<"alternate-styles.css">>}

(* ------------------------------ matching ------------------------------ *)

SegMatches(el, seg) == el.param \/ el.seg = seg

\* A route matches the whole path, a middleware a prefix of it.
PathMatches(layer, path) ==
    /\ IF layer.route THEN Len(path) = Len(layer.pattern)
                      ELSE Len(path) >= Len(layer.pattern)
    /\ \A i \in 1..Len(layer.pattern) : SegMatches(layer.pattern[i], path[i])

\* Layer.match: "no", "yes", or "error" when a captured parameter does not
\* decode (the router keeps the URIError as the request's failure).
MatchLayer(layer, path) ==
    IF ~PathMatches(layer, path) THEN "no"
    ELSE IF \E i \in 1..Len(layer.pattern) :
                layer.pattern[i].param /\ ~Decodable(path[i])
         THEN "error"
         ELSE "yes"

\* HandlesMethod of a route registered for every method (app.all).
HandlesAnyMethod(layer, method) == TRUE

\* Route._handles_method: a GET route also answers HEAD.
HandlesMethod(layer, method) ==
    method = layer.method \/ (method = "HEAD" /\ layer.method = "GET")

\* req.params of a matched route.
Params(layer, path) ==
    [n \in {layer.pattern[i].name : i \in {j \in 1..Len(layer.pattern) : layer.pattern[j].param}}
        |-> DecodeParam(path[CHOOSE i \in 1..Len(layer.pattern) :
                                  layer.pattern[i].param /\ layer.pattern[i].name = n])]

\* Invokes with the error middleware taken for an ordinary one (its fourth
\* parameter dropped): no middleware is ever entered with a failure.
InvokesNoErrorMode(layer, method, e) ==
    IF layer.route THEN e = NoErr /\ HandlesMethod(layer, method)
                   ELSE e = NoErr

\* Whether the router invokes the layer: a route only without a failure and
\* for its method; a middleware of arity 4 only with a failure, any other
\* middleware only without one.
Invokes(layer, method, e) ==
    IF layer.route THEN e = NoErr /\ HandlesMethod(layer, method)
                   ELSE (e # NoErr) = (layer.arity = 4)

RECURSIVE NextMatch(_, _, _)
\* The router's next(): the first layer from i on that it invokes, and the
\* failure carried to it; idx = Len(Stack) + 1 when the stack is exhausted.
NextMatch(i, r, e) ==
    IF i > Len(Stack) THEN [idx |-> i, err |-> e]
    ELSE LET m  == MatchLayer(Stack[i], r.path)
             e2 == IF m = "error" /\ e = NoErr THEN URIError ELSE e
         IN  IF m = "yes" /\ Invokes(Stack[i], r.method, e2)
             THEN [idx |-> i, err |-> e2]
             ELSE NextMatch(i + 1, r, e2)

(* ----------------------------- responses ------------------------------ *)

\* A render call without options, as the not-found middleware makes it.
NoOptions == [k \in {} |-> ""]

\* layout: false.
NoLayout == "false"

\* The response object Express creates for a request: status 200 until set,
\* nothing sent, and the layer that answered it (0: none yet).
NewResponse ==
    [status |-> 200, sent |-> 0, view |-> "", file |-> <<>>,
     options |-> NoOptions, by |-> 0]

\* res.status(code).
SetStatus(rs, code) == [rs EXCEPT !.status = code]

\* Render with the status kept in a variable shared by all requests: once a
\* failure was logged, every later page goes out with 500.
RenderSticky(rs, i, view, options) ==
    [rs EXCEPT !.sent = @ + 1, !.view = view, !.options = options, !.by = i,
               !.status = IF log # <<>> THEN 500 ELSE @]

\* res.render(view, options) by layer i: the view and its options go out.
Render(rs, i, view, options) ==
    [rs EXCEPT !.sent = @ + 1, !.view = view, !.options = options, !.by = i]

\* express.static sending a file.
SendFile(rs, i, file) == [rs EXCEPT !.sent = @ + 1, !.file = file, !.by = i]

\* express.static redirecting a request for a directory to its trailing-slash
\* URL.
Redirect(rs, i) == [rs EXCEPT !.status = 301, !.sent = @ + 1, !.by = i]

Products ==
    << [name |-> "Product 1", price |-> 1999, description |-> "Description for Product 1"],
       [name |-> "Product 2", price |-> 2999, description |-> "Description for Product 2"],
       [name |-> "Product 3", price |-> 3999, description |-> "Description for Product 3"] >>

(* --------------------------- route handlers --------------------------- *)

Renders(view, options) ==
    [throws |-> FALSE, err |-> NoErr, view |-> view, options |-> options]

Throws(e) == [throws |-> TRUE, err |-> e, view |-> "", options |-> NoOptions]

\* What the handler of an app.get route does with req.params = params.
RouteHandler(handler, params) ==
    CASE handler = "simple" ->
           Renders("simple", [layout |-> NoLayout, value1 |-> "Example Value 1",
                              value2 |-> "Example Value 2"])
      [] handler = "home" ->
           Renders("home", [title |-> "Home Page"])
      [] handler = "saymyname" ->
           Renders("say-name", [fname |-> params.fname, lname |-> params.lname])
      [] handler = "saymyname2" ->
           Renders("say-name", [layout |-> "alternate.handlebars",
                                fname |-> params.fname, lname |-> params.lname])
      [] handler = "partials-example" ->
           Renders("say-name", [layout |-> "layout-partials.handlebars",
                                fname |-> <<"John">>, lname |-> <<"Doe">>])
      [] handler = "list" ->
           Renders("list", [items |-> <<"Item 1", "Item 2", "Item 3", "Item 4">>])
      [] handler = "products" ->
           Renders("products", [products |-> Products])
      [] handler = "products-partials" ->
           Renders("products-partials", [layout |-> "layout-partials.handlebars",
                                         products |-> Products])
      [] handler = "profile" ->
           Renders("profile", [isLoggedIn |-> TRUE, username |-> "JaneDoe",
                               isAdmin |-> FALSE])
      [] handler = "unless-example" ->
           Renders("unless-example", [isLoggedIn |-> FALSE, username |-> "Guest"])
      [] handler = "error-a" ->
           Throws(AuthenticationError("User or password does not match",
                                      "Error: User or password does not match at /error-a"))
      [] handler = "error-b" ->
           Throws(RequiredFieldError("A required field is missing",
                                     "Error: A required field is missing at /error-b"))

\* (err as AppError).code || 'unknown_error': an absent or empty code is falsy.
ErrorCode(e) == IF e.code # "" THEN e.code ELSE "unknown_error"

\* ErrorResponse that also hands the message to the view.
ErrorResponseLeaky(rs, i, e) ==
    Render(SetStatus(rs, 500), i, "error",
           [code |-> ErrorCode(e), message |-> e.message])

\* The error middleware: log the stack, then status 500 and the error view.
ErrorResponse(rs, i, e) ==
    Render(SetStatus(rs, 500), i, "error", [code |-> ErrorCode(e)])

\* NotFoundResponse with res.status(404) forgotten.
NotFoundResponseNoStatus(rs, i) == Render(rs, i, "not-found", NoOptions)

\* The not-found middleware: status 404 and the not-found view, no options.
NotFoundResponse(rs, i) == Render(SetStatus(rs, 404), i, "not-found", NoOptions)

\* Whether express.static has a file for the request: GET or HEAD only.
StaticServes(r) ==
    /\ r.method \in {"GET", "HEAD"}
    /\ Len(r.path) = 2
    /\ r.path[2] \in StaticFiles

\* Whether express.static is asked for its own directory, without a trailing
\* slash (/static): it answers that with a redirect.
StaticRedirects(r) ==
    /\ r.method \in {"GET", "HEAD"}
    /\ Len(r.path) = 1

\* Express's final handler, reached when no layer is left: 404 without a
\* failure, otherwise the failure's 4xx/5xx status or 500.
FinalResponse(rs, e) ==
    [rs EXCEPT !.sent = @ + 1, !.by = Len(Stack) + 1,
               !.status = IF e = NoErr THEN 404
                          ELSE IF e.class = "URIError" THEN 400 ELSE 500]

(* ---------------------------- the machine ----------------------------- *)

\* No response remembered yet.
NoMemo == [req |-> NoReq, res |-> NewResponse, clean |-> TRUE]

\* The failures tried on the error middleware: the three of the taxonomy,
\* and failures outside it as a library or the runtime raises them, without
\* a `code` property and with one (Node's file-system errors carry one).
Failures ==
    {AppError("app failure", "Error: app failure at handler"),
     AuthenticationError("User or password does not match",
                         "Error: User or password does not match at /error-a"),
     RequiredFieldError("A required field is missing",
                        "Error: A required field is missing at /error-b"),
     URIError,
     Failure("Error", FALSE, "", "boom", "Error: boom at handler"),
     Failure("TypeError", FALSE, "", "Cannot read properties of undefined",
             "TypeError: Cannot read properties of undefined at handler"),
     Failure("Error", FALSE, "EACCES", "EACCES: permission denied, open",
             "Error: EACCES: permission denied, open"),
     Failure("Error", FALSE, "ENOENT", "ENOENT: no such file or directory, open",
             "Error: ENOENT: no such file or directory, open"),
     Failure("Error", FALSE, "auth_error", "not an AppError",
             "Error: not an AppError at handler")}

Init ==
    /\ argv = <<>>
    /\ port = 0
    /\ listening = FALSE
    /\ pc = "idle"
    /\ req = NoReq
    /\ idx = 0
    /\ err = NoErr
    /\ res = NewResponse
    /\ ran = <<>>
    /\ log = <<>>
    /\ logMark = 0
    /\ memo = NoMemo

\* The process started with any command-line argument, not yet listening.
InitPort ==
    /\ argv \in Args
    /\ port = 0
    /\ listening = FALSE
    /\ pc = "idle"
    /\ req = NoReq
    /\ idx = 0
    /\ err = NoErr
    /\ res = NewResponse
    /\ ran = <<>>
    /\ log = <<>>
    /\ logMark = 0
    /\ memo = NoMemo

\* A request for which an upstream layer has forwarded failure e, about to
\* enter the error middleware.
InitErr ==
    /\ argv = <<>>
    /\ port = DefaultPort
    /\ listening = TRUE
    /\ pc = "dispatch"
    /\ req \in Requests
    /\ idx = LayerOf("error")
    /\ err \in Failures
    /\ res = NewResponse
    /\ ran = <<>>
    /\ log = <<>>
    /\ logMark = 0
    /\ memo = NoMemo

\* const port = parseInt(process.argv[2]) || 3000; app.listen(port).
Listen ==
    /\ ~listening
    /\ port' = Port(argv)
    /\ listening' = TRUE
    /\ UNCHANGED <<argv, pc, req, idx, err, res, ran, log, logMark, memo>>

\* The layer answered: the request is over.
Respond(rs, lg) ==
    /\ pc' = "done"
    /\ res' = rs
    /\ log' = lg
    /\ UNCHANGED <<idx, err>>

\* next([e]) from before layer i: on to the next layer the router invokes,
\* or to the final handler (which logs the failure it answers).
Proceed(r, i, e, rs, lg) ==
    LET m == NextMatch(i, r, e)
    IN  /\ idx' = m.idx
        /\ err' = m.err
        /\ IF m.idx <= Len(Stack)
           THEN /\ pc' = "dispatch"
                /\ res' = rs
                /\ log' = lg
           ELSE /\ pc' = "done"
                /\ res' = FinalResponse(rs, m.err)
                /\ log' = IF m.err = NoErr THEN lg ELSE Append(lg, m.err.stack)

\* A request arrives and the router walks to the first layer it invokes.
Receive(r) ==
    /\ pc = "idle"
    /\ listening
    /\ Len(log) < MaxLog
    /\ req' = r
    /\ ran' = <<>>
    /\ logMark' = Len(log)
    /\ Proceed(r, 1, NoErr, NewResponse, log)
    /\ UNCHANGED <<argv, port, listening, memo>>

\* The exchange ends and its request and response objects are dropped; memo
\* may keep a copy of it, to compare a later exchange with.
Close ==
    /\ pc = "done"
    /\ pc' = "idle"
    /\ req' = NoReq
    /\ res' = NewResponse
    /\ err' = NoErr
    /\ idx' = 0
    /\ ran' = <<>>
    /\ memo' \in {memo, [req |-> req, res |-> res, clean |-> log = <<>>]}
    /\ UNCHANGED <<argv, port, listening, log, logMark>>

\* express.static: send the file if there is one, redirect a request for
\* the directory, otherwise next().
StaticMiddleware ==
    /\ pc = "dispatch"
    /\ Stack[idx].handler = "static"
    /\ ran' = Append(ran, idx)
    /\ IF StaticServes(req)
       THEN Respond(SendFile(res, idx, req.path[2]), log)
       ELSE IF StaticRedirects(req)
            THEN Respond(Redirect(res, idx), log)
            ELSE Proceed(req, idx + 1, err, res, log)
    /\ UNCHANGED <<argv, port, listening, req, logMark, memo>>

\* An app.get handler: render, or throw (the router catches it and calls
\* next(e)).
GetRoute ==
    /\ pc = "dispatch"
    /\ Stack[idx].route
    /\ ran' = Append(ran, idx)
    /\ LET o == RouteHandler(Stack[idx].handler, Params(Stack[idx], req.path))
       IN  IF o.throws
           THEN Proceed(req, idx + 1, o.err, res, log)
           ELSE Respond(Render(res, idx, o.view, o.options), log)
    /\ UNCHANGED <<argv, port, listening, req, logMark, memo>>

\* app.use((req, res) => res.status(404).render('not-found')).
NotFoundMiddleware ==
    /\ pc = "dispatch"
    /\ Stack[idx].handler = "not-found"
    /\ ran' = Append(ran, idx)
    /\ Respond(NotFoundResponse(res, idx), log)
    /\ UNCHANGED <<argv, port, listening, req, logMark, memo>>

\* ErrorMiddleware that answers and then also calls next(err).
ErrorMiddlewareHandsOn ==
    /\ pc = "dispatch"
    /\ Stack[idx].handler = "error"
    /\ ran' = Append(ran, idx)
    /\ Proceed(req, idx + 1, err, ErrorResponse(res, idx, err), Append(log, err.stack))
    /\ UNCHANGED <<argv, port, listening, req, logMark, memo>>

\* app.use((err, req, res, next) => ...): console.error(err.stack), then
\* res.status(500).render('error', {code}).
ErrorMiddleware ==
    /\ pc = "dispatch"
    /\ Stack[idx].handler = "error"
    /\ ran' = Append(ran, idx)
    /\ Respond(ErrorResponse(res, idx, err), Append(log, err.stack))
    /\ UNCHANGED <<argv, port, listening, req, logMark, memo>>

Next ==
    \/ Listen
    \/ \E r \in Requests : Receive(r)
    \/ StaticMiddleware
    \/ GetRoute
    \/ NotFoundMiddleware
    \/ ErrorMiddleware
    \/ Close

Spec == Init /\ [][Next]_vars

\* A handler the router has reached runs: the event loop leaves none pending.
FairSpec ==
    /\ Spec
    /\ WF_vars(StaticMiddleware)
    /\ WF_vars(GetRoute)
    /\ WF_vars(NotFoundMiddleware)
    /\ WF_vars(ErrorMiddleware)

\* The port computation alone, over every argument.
SpecPort == InitPort /\ [][Listen]_vars

\* The error middleware alone, over every failure.
SpecErr == InitErr /\ [][ErrorMiddleware]_vars

(* ------------------------------ claims -------------------------------- *)

Done == pc = "done"

IsGet(path) == Done /\ req.method = "GET" /\ req.path = path

ErrorLayer == LayerOf("error")

NotFoundLayer == LayerOf("not-found")

\* A route of the table has this path pattern, whatever the method.
InRouteTable(path) ==
    \E i \in 1..Len(Stack) : Stack[i].route /\ PathMatches(Stack[i], path)

\* Every parameter the path would give a route of the table decodes.
ParamsDecode(path) ==
    \A i \in 1..Len(Stack) :
        Stack[i].route => MatchLayer(Stack[i], path) # "error"

\* The not-found answer, with no failure and the error middleware not run.
NotFoundAnswer ==
    /\ res.status = 404
    /\ res.view = "not-found"
    /\ res.options = NoOptions
    /\ res.sent = 1
    /\ err = NoErr
    /\ \A k \in 1..Len(ran) : ran[k] # ErrorLayer

\* The error middleware's answer with the given code.
ErrorAnswer(code) ==
    /\ res.status = 500
    /\ res.view = "error"
    /\ res.options = [code |-> code]

\* C1 (as claimed): GET /error-a is answered with status 500 and the error
\* view with code auth_error, GET /error-b with status 500 and the error view
\* with code required_field_error.
ErrorRoutesAnswer500 ==
    /\ IsGet(P1("error-a")) => ErrorAnswer("auth_error")
    /\ IsGet(P1("error-b")) => ErrorAnswer("required_field_error")

\* C2 (as claimed): the code the error middleware hands to the error view is
\* the failure's own code when the failure is an AppError, and unknown_error
\* for every other failure, also one that carries a code property.
CodeIffApplicationError ==
    (Done /\ res.by = ErrorLayer) =>
        res.options.code = IF err.app THEN err.code ELSE "unknown_error"

\* The requests the claim takes to match no registered route.
ClaimedUnmatched(r) ==
    \/ r.method # "GET"
    \/ ~InRouteTable(r.path) /\ ~StaticServes(r)

\* C3 (as claimed): every non-GET request, every GET outside the route table
\* and every /static request with no file is answered 404 with the not-found
\* view, no options, and no failure raised.
UnmatchedGets404 == (Done /\ ClaimedUnmatched(req)) => NotFoundAnswer

\* The requests that no binding answers.
Unmatched(r) ==
    \/ r.method \notin {"GET", "HEAD"} /\ ParamsDecode(r.path)
    \/ /\ r.method \in {"GET", "HEAD"}
       /\ ~InRouteTable(r.path)
       /\ ~StaticServes(r)
       /\ r.path # P1("static")

\* C3 (amended): a request is answered 404 with the not-found view, no
\* options and no failure when its method is neither GET nor HEAD and the
\* parameters of its path decode, or when its method is GET or HEAD, its path
\* is outside the route table and express.static neither has a file for it
\* nor redirects it (/static itself).
UnmatchedGets404Amended == (Done /\ Unmatched(req)) => NotFoundAnswer

UnmatchedWitness ==
    /\ Done
    /\ req.method = "POST"
    /\ req.path = P1("simple")
    /\ NotFoundAnswer
    /\ res.by = NotFoundLayer

ErrorResponseCarriesOnlyCode ==
    /\ (Done /\ res.by = ErrorLayer) =>
          /\ res.status = 500
          /\ res.view = "error"
          /\ DOMAIN res.options = {"code"}
          /\ res.options.code \notin {err.message, err.stack}
    /\ (Done /\ res.status = 500) =>
          /\ Len(log) = logMark + 1
          /\ log[Len(log)] = err.stack

ErrorResponseWitness ==
    /\ Done
    /\ res.by = ErrorLayer
    /\ err.class = "AuthenticationError"
    /\ res.options = [code |-> "auth_error"]
    /\ log = <<err.stack>>

\* C6: a request gets the response the same request (method and path) got
\* earlier in the run, whatever was served in between.
SameRequestSameResponse == (Done /\ memo.req = req) => res = memo.res

SameRequestWitness ==
    /\ IsGet(P1("products"))
    /\ memo.req = req
    /\ logMark > 0
    /\ res.view = "products"
    /\ res.options = [products |-> Products]

IsSayMyName ==
    /\ Done
    /\ req.method = "GET"
    /\ Len(req.path) = 3
    /\ req.path[1] \in {<<"saymyname">>, <<"saymyname2">>}

\* The say-name answer with the given names: the default layout (no layout
\* option) for /saymyname, the alternate one for /saymyname2.
SayNameAnswer(f, l) ==
    /\ res.status = 200
    /\ res.view = "say-name"
    /\ res.options = IF req.path[1] = <<"saymyname">>
                     THEN [fname |-> f, lname |-> l]
                     ELSE [layout |-> "alternate.handlebars", fname |-> f, lname |-> l]

\* C7 (as claimed): for all segments f and l, GET /saymyname/f/l and GET
\* /saymyname2/f/l answer 200 with the say-name view and fname = f, lname = l
\* unchanged, the two differing in the layout alone.
SayMyNameEchoesSegments == IsSayMyName => SayNameAnswer(req.path[2], req.path[3])

\* C7 (amended): for all segments f and l that percent-decode, the two
\* routes answer 200 with the say-name view and fname, lname the decoded f
\* and l as strings, differing in the layout alone; when f or l does not
\* decode the answer is the error middleware's 500 with code unknown_error.
SayMyNameDecodesSegments ==
    IsSayMyName =>
        IF Decodable(req.path[2]) /\ Decodable(req.path[3])
        THEN SayNameAnswer(IF req.path[2] = <<"%37">> THEN <<"7">> ELSE req.path[2],
                           IF req.path[3] = <<"%37">> THEN <<"7">> ELSE req.path[3])
        ELSE ErrorAnswer("unknown_error")

SayMyNameWitness ==
    /\ IsSayMyName
    /\ req.path = <<(<<"saymyname2">>), (<<"%37">>), (<<"J">>)>>
    /\ res.view = "say-name"
    /\ res.options.fname = <<"7">>
    /\ res.options.layout = "alternate.handlebars"

IsNumeric(s) == Len(s) > 0 /\ \A i \in 1..Len(s) : s[i] \in Digits

\* C8 (as claimed): the port is the number given by the argument when the
\* argument is numeric, and 3000 when it is absent or not numeric.
PortIsNumericArgOrDefault ==
    listening =>
        port = IF IsNumeric(argv)
               THEN DigitPrefix(argv, 1, [nan |-> TRUE, val |-> 0]).val
               ELSE 3000

\* A binding of the table (the error middleware is none) that the request's
\* method and path match.
BindingMatches(i, r) ==
    /\ Stack[i].arity # 4
    /\ PathMatches(Stack[i], r.path)
    /\ Stack[i].route => r.method \in {"GET", "HEAD"}

\* The binding declines: express.static with no file to send and no
\* directory to redirect.
Declines(i, r) ==
    /\ Stack[i].handler = "static"
    /\ ~(r.method \in {"GET", "HEAD"} /\ r.path \in {P1("static"), P2("static", "styles.css")})

Earliest(S) == CHOOSE i \in S : \A j \in S : i <= j

\* C9 (as claimed): without a failure, the one binding that runs is the
\* earliest-registered binding the request matches.
FirstMatchOnlyRuns ==
    (Done /\ err = NoErr) =>
        ran = <<Earliest({i \in 1..Len(Stack) : BindingMatches(i, req)})>>

\* C9 (amended): without a failure, the binding that answers is the
\* earliest-registered binding the request matches that does not decline,
\* and the only binding that runs before it is express.static declining
\* (nothing to send for the request); none runs after it.
FirstMatchAnswers ==
    (Done /\ err = NoErr) =>
        LET first == Earliest({i \in 1..Len(Stack) :
                                  BindingMatches(i, req) /\ ~Declines(i, req)})
        IN  /\ res.by = first
            /\ ran = IF BindingMatches(1, req) /\ Declines(1, req)
                     THEN <<1, first>> ELSE <<first>>

FirstMatchWitness ==
    /\ IsGet(P2("static", "missing.css"))
    /\ ran = <<1, NotFoundLayer>>
    /\ res.by = NotFoundLayer

\* Once the not-found or the error middleware runs, it answers and no layer
\* runs after it.
Terminal ==
    \A k \in 1..Len(ran) :
        Stack[ran[k]].handler \in {"not-found", "error"} =>
            k = Len(ran) /\ res.by = ran[k]

\* C10 (as claimed): the not-found and the error middleware are terminal; a
\* finished request has exactly one response, of status 200, 404 or 500,
\* nothing is sent before; and every request the router took up is answered.
TerminalHandlersOneResponse ==
    /\ [](Done => res.sent = 1 /\ res.status \in {200, 404, 500} /\ Terminal)
    /\ [](pc = "dispatch" => res.sent = 0)
    /\ ((pc = "dispatch") ~> Done)

\* C10 (amended): as claimed, but the status is 200, 404 or 500 only for a
\* response that express.static did not send: 200 from a route, 404 from
\* the not-found middleware, 500 from the error middleware; express.static
\* answers with a status of its own (200 for a file, 301 for /static).
TerminalHandlersOneResponseAmended ==
    /\ [](Done =>
            /\ res.sent = 1
            /\ Terminal
            /\ res.status = CASE res.by = NotFoundLayer -> 404
                               [] res.by = ErrorLayer -> 500
                               [] res.by = 1 /\ req.path = P1("static") -> 301
                               [] OTHER -> 200)
    /\ [](pc = "dispatch" => res.sent = 0)
    /\ ((pc = "dispatch") ~> Done)

TerminalWitness ==
    /\ Done
    /\ ran = <<ErrorLayer>>
    /\ res.by = ErrorLayer
    /\ res.status = 500
    /\ res.sent = 1

====
